---- MODULE Spec2Model ----
(***************************************************************************)
(* Session lifecycle manager of mcp-catalogue.                             *)
(*                                                                         *)
(* The repository holds two versions of MCPSessionManager:                 *)
(*   - the detached-worker manager (src/unnamed/part_000), whose start     *)
(*     spawns a session worker and whose only state is the registry file   *)
(*     .sessions.json;                                                     *)
(*   - the in-process manager (src/session-manager.ts), which keeps the    *)
(*     sessions and the used ports in memory and mirrors them to the file. *)
(* Both are modelled: SpecSeq and SpecConc run the detached-worker         *)
(* manager (one CLI invocation at a time, resp. two interleaved ones),     *)
(* SpecMem runs the in-process manager in two processes whose calls do     *)
(* not overlap, and Spec is either manager, its calls one at a time.       *)
(* Writes of the registry file succeed in all of them; SpecIO is SpecSeq   *)
(* on a disk whose writes may fail.                                        *)
(*                                                                         *)
(* SpecWorker runs one session worker (src/unnamed/part_007) from its      *)
(* spawn to its exit, with the signals it is sent; SpecWorkerFair is the   *)
(* same worker with the steps of its shutdown taken once they are enabled. *)
(* SpecLife runs the detached-worker manager together with the worker of   *)
(* one session.  SpecCli runs the session commands of the CLI              *)
(* (src/index.ts) against the registry, SpecClient the connection cache    *)
(* of src/mcp-client.ts.  SpecPure applies the uptime formatter and the    *)
(* save/load round trip of the registry to inputs drawn from bounded sets. *)
(***************************************************************************)
EXTENDS Integers, Sequences, FiniteSets, TLC

\* ------------------------------------------------------------------ bounds
NumProviders == 6
MaxCalls == 2
MaxFaults == 1
MaxSignals == 3
MaxRequests == 2
MaxSeconds == 125
MaxOpens == 3
MaxFound == 2
TickMs == 45000

Providers == 1..NumProviders
Inv == {1, 2}

\* --------------------------------------------------------------- constants
PORT_POOL == <<3978, 3979, 3980, 3981, 3982>>

PoolPorts == {PORT_POOL[k] : k \in 1..Len(PORT_POOL)}
Pids == 1..(Len(PORT_POOL) + MaxCalls)

\* ------------------------------------------------------------ SessionsFile
\* A SessionsFile object is the sequence of its properties in insertion
\* order, each a SessionFileEntry under its server name.  NoRec stands for
\* undefined / null.
NoRec == [port |-> 0, pid |-> 0, startedAt |-> 0]
PropNoPid(p, e) == [name |-> p, port |-> e.port, pid |-> 0, startedAt |-> e.startedAt]
Prop(p, e) == [name |-> p, port |-> e.port, pid |-> e.pid, startedAt |-> e.startedAt]
EntryOf(x) == [port |-> x.port, pid |-> x.pid, startedAt |-> x.startedAt]

Idx(sessions, p) == {k \in 1..Len(sessions) : sessions[k].name = p}
Has(sessions, p) == Idx(sessions, p) # {}
\* sessions[p]
GetNothing(sessions, p) == NoRec
Get(sessions, p) ==
    IF Has(sessions, p) THEN EntryOf(sessions[CHOOSE k \in Idx(sessions, p) : TRUE])
    ELSE NoRec
\* sessions[p] = e
PutNothing(sessions, p, e) == sessions
Put(sessions, p, e) ==
    IF Has(sessions, p)
    THEN [sessions EXCEPT ![CHOOSE k \in Idx(sessions, p) : TRUE] = Prop(p, e)]
    ELSE Append(sessions, Prop(p, e))
\* delete sessions[p]
DelAll(sessions, p) == <<>>
Del(sessions, p) == SelectSeq(sessions, LAMBDA x : x.name # p)
\* Object.keys(sessions)
KeysHead(sessions) == [k \in 1..(IF sessions = <<>> THEN 0 ELSE 1) |-> sessions[k].name]
Keys(sessions) == [k \in 1..Len(sessions) |-> sessions[k].name]
Names(sessions) == {sessions[k].name : k \in 1..Len(sessions)}
\* Object.values(sessions)
Values(sessions) == {EntryOf(sessions[k]) : k \in 1..Len(sessions)}

VARIABLES
    file,    \* content of .sessions.json
    procs,   \* operating system: pid -> "none" | "live" | "term" (sent SIGTERM,
             \*   exiting or gone) | "crashed" | "foreign" (the pid went to a
             \*   process the CLI may not signal) | "stray" (the pid went to a
             \*   process of the same user, which was sent SIGTERM)
    inv,     \* per CLI invocation: position, locals and result of the running call
    last,    \* the call before the current one, when it was a start that returned an address
    calls,   \* number of CLI invocations so far; the wall clock, read once per invocation
    mem,     \* in-process manager only: per process, its sessions Map and usedPorts Set
    wk,      \* one session worker process: position, flags, what it holds open
    fn,      \* a function applied on its own: its name, its input, its output
    disk,    \* "ok": every writeFile succeeds; "faulty": a writeFile may fail
    clients  \* src/mcp-client.ts in one process: its Map of connected clients,
             \*   the connects and closes under way, and what the last step did

vars == <<file, procs, inv, last, calls, mem, wk, fn, disk, clients>>

\* ------------------------------------------------------------ pure helpers
\* The file content is JSON text of a SessionsFile (valid), or the file is
\* missing or holds something JSON.parse rejects.
Unreadable == [valid |-> FALSE, sessions |-> <<>>]

\* JSON.stringify(sessions, null, 2): the properties in order, each entry
\* with its members port, pid (numbers) and startedAt (a string) in the
\* order start wrote them.
JSONstringify(sessions) ==
    [k \in 1..Len(sessions) |->
        <<sessions[k].name,
          <<"port", sessions[k].port>>,
          <<"pid", sessions[k].pid>>,
          <<"startedAt", sessions[k].startedAt>>>>]

\* JSON.parse(content) of such a text
Member(obj, key) == obj[CHOOSE j \in 2..Len(obj) : obj[j][1] = key][2]
JSONparseNoPid(text) ==
    [k \in 1..Len(text) |->
        [name |-> text[k][1], port |-> Member(text[k], "port"),
         pid |-> 0, startedAt |-> Member(text[k], "startedAt")]]
JSONparse(text) ==
    [k \in 1..Len(text) |->
        [name |-> text[k][1], port |-> Member(text[k], "port"),
         pid |-> Member(text[k], "pid"), startedAt |-> Member(text[k], "startedAt")]]

\* loadSessionsFromFile: JSON.parse of the file content; {} from the catch.
loadSessionsFromFileNotEmpty(content) ==
    IF content.valid THEN JSONparse(content.sessions)
    ELSE <<[name |-> 1, port |-> PORT_POOL[1], pid |-> 1, startedAt |-> 0]>>
loadSessionsFromFile(content) == IF content.valid THEN JSONparse(content.sessions) ELSE <<>>

\* saveSessionsToFile: the whole file is overwritten with JSON.stringify(sessions).
saveSessionsToFile(sessions) == [valid |-> TRUE, sessions |-> JSONstringify(sessions)]

\* What the file can hold before the first call, given the sessions started so far.
FileOf(sessions) ==
    IF sessions = <<>> THEN {saveSessionsToFile(<<>>), Unreadable}
    ELSE {saveSessionsToFile(sessions)}

\* getSessionFromFile(serverName): sessions[serverName] || null
getSessionFromFile(content, p) == Get(loadSessionsFromFile(content), p)

\* allocatePort(existingSessions): the first pool port no session holds,
\* 0 when the loop falls through to the throw.
InUse(sessions, port) == \E e \in Values(sessions) : e.port = port
FreeIdx(sessions) == {k \in 1..Len(PORT_POOL) : ~InUse(sessions, PORT_POOL[k])}
allocatePortFirst(sessions) == PORT_POOL[1]
allocatePortLast(sessions) ==
    IF FreeIdx(sessions) = {} THEN 0
    ELSE PORT_POOL[CHOOSE k \in FreeIdx(sessions) : \A j \in FreeIdx(sessions) : k >= j]
allocatePort(sessions) ==
    IF FreeIdx(sessions) = {} THEN 0
    ELSE PORT_POOL[CHOOSE k \in FreeIdx(sessions) : \A j \in FreeIdx(sessions) : k <= j]

\* start: if (sessions[serverName]) return its URL
ExistingNever(sessions, p) == FALSE
Existing(sessions, p) == Has(sessions, p)

\* start: the try block around spawn.  spawn throws, or returns a child
\* without a pid (the throw of line 152), or returns a running child.
SpawnResults == {"throws", "nopid", "ok"}
LaunchFailedNoPidCheck(r) == r = "throws"
LaunchFailed(r) == r \in {"throws", "nopid"}

\* stop: the catch around process.kill rethrows unless err.code is ESRCH.
\* process.kill returns when the signal was delivered, to the worker ("ok")
\* or to whatever process holds its pid by now ("stray").
KillFailsOnAnyError(r) == r \notin {"ok", "stray"}
KillFails(r) == r \notin {"ok", "stray", "ESRCH"}

\* stop: throw new Error(`No active session found for '${serverName}'`)
MissingErrorNone == "none"
MissingError == "NotFound"

\* `http://localhost:${port}`
Url(port) == <<"http://localhost:", port>>
NoUrl == <<"", 0>>

\* The message of the Error start throws: the server name it quotes (0 when
\* it quotes none) and the cause it gives.
NoMessage == [name |-> 0, cause |-> "none"]
\* allocatePort: throw new Error('No available ports in pool. Stop a session first.')
PoolExhaustedMessage == [name |-> 0, cause |-> "No available ports in pool. Stop a session first."]
\* what the catch of start finds in error.message
SpawnCause(r) ==
    IF r = "nopid" THEN "Failed to spawn session worker process" ELSE "message of the error spawn threw"
\* `Failed to start session '${serverName}': ${error.message}`
StartFailedMessage(p, cause) == [name |-> p, cause |-> cause]

\* What the CLI command `session call` did: its params argument, the HTTP
\* requests it made, the reply it got, what it printed (the server name
\* and the next step its error message gives, the result) and its exit
\* status.
NoCli == [arg |-> "none", requests |-> 0, name |-> 0, hint |-> "none",
          printed |-> "none", exit |-> 0, reply |-> [status |-> 0, success |-> FALSE]]

Idle == [pc |-> "idle", op |-> "none", name |-> 0, entry |-> NoRec,
         spawn |-> "none", before |-> Unreadable,
         buf |-> <<>>, names |-> <<>>, queue |-> <<>>,
         tried |-> {}, failed |-> {}, reports |-> 0, killed |-> {}, sent |-> <<>>,
         logged |-> 0,
         err |-> "none", msg |-> NoMessage, url |-> NoUrl, items |-> <<>>,
         cli |-> NoCli, port |-> 0]

NoCall == [name |-> 0, url |-> NoUrl, stopped |-> 0, freed |-> 0, failed |-> 0, offered |-> 0]

\* The detached-worker manager keeps nothing in memory.
NoMem == <<>>

\* No function is applied on its own.
NoFn == [f |-> "none", in |-> <<>>, out |-> <<>>, applied |-> FALSE]

\* No session worker is looked at.
NoWorker ==
    [args |-> "none", pc |-> "absent", handlers |-> FALSE, shuttingDown |-> FALSE,
     conn |-> "none", listener |-> "none", connects |-> 0,
     clientCloses |-> 0, serverCloses |-> 0, exits |-> 0, how |-> "none",
     signals |-> 0, ignored |-> 0, by |-> "none",
     requests |-> 0, inflight |-> 0, responses |-> <<>>,
     pid |-> 0, port |-> 0]

\* The wrapper module just loaded: clients = new Map().  A Map is the
\* sequence of its entries in insertion order; clients are numbered in the
\* order their connections were opened, 0 standing for undefined.
\*   pend     per server name, the client.connect calls not yet settled
\*   closing  the entry closeAllServers awaits the close of
\*   closed   the clients closed so far
\*   res      the last step: function, server name, what it returned or
\*            threw, and the Map and the number of connections before it
ServerNames == {1, 2}
NoEntry == [name |-> 0, client |-> 0]
NoRes == [op |-> "none", step |-> "none", name |-> 0, out |-> 0, err |-> "none",
          before |-> <<>>, opened |-> 0]
NoClients == [cache |-> <<>>, opened |-> 0, pend |-> [n \in ServerNames |-> 0],
              closing |-> NoEntry, closed |-> {}, res |-> NoRes]

FreshPid == CHOOSE q \in Pids : procs[q] = "none" /\ \A r \in Pids : procs[r] = "none" => q <= r

\* The registry file outlives the CLI invocations.  Filled(k) is the file
\* left by start(1), ..., start(k) run one after the other on an empty file.
MaxFill == IF NumProviders < Len(PORT_POOL) THEN NumProviders ELSE Len(PORT_POOL)
Filled(k) ==
    SubSeq([j \in 1..MaxFill |->
               [name |-> j, port |-> PORT_POOL[j], pid |-> j, startedAt |-> 0]], 1, k)

Init ==
    /\ \E k \in 0..MaxFill :
          /\ file \in FileOf(Filled(k))
          /\ procs = [q \in Pids |-> IF q <= k THEN "live" ELSE "none"]
    /\ inv = [i \in Inv |-> Idle]
    /\ last = NoCall
    /\ calls = 0
    /\ mem = NoMem
    /\ wk = NoWorker
    /\ fn = NoFn
    /\ disk = "ok"
    /\ clients = NoClients

\* A CLI invocation begins.
Begin ==
    /\ calls < MaxCalls
    /\ calls' = calls + 1

\* The call returns (err = "none") or throws (err names the error); the
\* locals it no longer reads are dropped.
Done(c, err, url) ==
    [c EXCEPT !.pc = "done", !.err = err, !.url = url, !.buf = <<>>, !.queue = <<>>]

\* ------------------------------------------------------------------ start
\* start(serverName, config) up to its first await inside addSessionToFile:
\* load, the existing-session check, allocatePort, spawn.
start(i, p) ==
    /\ inv[i].pc = "idle"
    /\ Begin
    /\ LET sessions == loadSessionsFromFile(file)
           port == allocatePort(sessions)
           c == [Idle EXCEPT !.op = "start", !.name = p, !.before = file,
                             !.port = IF Existing(sessions, p) THEN 0 ELSE port]
       IN  IF Existing(sessions, p)
           THEN /\ inv' = [inv EXCEPT ![i] = Done(c, "none", Url(Get(sessions, p).port))]
                /\ UNCHANGED <<file, procs, last>>
           ELSE IF port = 0
           THEN /\ inv' = [inv EXCEPT ![i] =
                             Done([c EXCEPT !.msg = PoolExhaustedMessage],
                                  "ResourceExhausted", NoUrl)]
                /\ UNCHANGED <<file, procs, last>>
           ELSE \E r \in SpawnResults :
                   LET c1 == [c EXCEPT !.spawn = r] IN
                   IF LaunchFailed(r)
                   THEN /\ inv' = [inv EXCEPT ![i] =
                                     Done([c1 EXCEPT !.msg = StartFailedMessage(p, SpawnCause(r))],
                                          "LaunchFailure", NoUrl)]
                        /\ UNCHANGED <<file, procs, last>>
                   ELSE LET pid == IF r = "ok" THEN FreshPid ELSE 0 IN
                        /\ procs' = IF r = "ok" THEN [procs EXCEPT ![pid] = "live"]
                                    ELSE procs
                        /\ inv' = [inv EXCEPT ![i] =
                             [c1 EXCEPT !.pc = "add_load",
                                        !.entry = [port |-> port, pid |-> pid,
                                                   startedAt |-> calls']]]
                        /\ UNCHANGED <<file, last>>

\* addSessionToFile: sessions = await loadSessionsFromFile(); sessions[name] = entry
addSessionToFileLoad(i) ==
    /\ inv[i].pc = "add_load"
    /\ inv' = [inv EXCEPT ![i].pc = "add_save",
                          ![i].buf = Put(loadSessionsFromFile(file),
                                         inv[i].name, inv[i].entry)]
    /\ UNCHANGED <<file, procs, last, calls>>

\* saveSessionsToFile: await writeFile(...) succeeds or throws; the catch
\* logs the error and throws nothing.
WriteResults == IF disk = "faulty" THEN {"ok", "fails"} ELSE {"ok"}
SaveErrorEscalates(w) == IF w = "ok" THEN "none" ELSE "PersistenceFailure"
SaveError(w) == "none"
Written(w, sessions) == IF w = "ok" THEN saveSessionsToFile(sessions) ELSE file
Logged(c, w) == [c EXCEPT !.logged = IF w = "ok" THEN @ ELSE @ + 1]

\* addSessionToFile: await saveSessionsToFile(sessions); start returns the URL
addSessionToFileSave(i) ==
    /\ inv[i].pc = "add_save"
    /\ \E w \in WriteResults :
          /\ file' = Written(w, inv[i].buf)
          /\ inv' = [inv EXCEPT ![i] =
                       IF SaveError(w) = "none"
                       THEN Done(Logged(inv[i], w), "none", Url(inv[i].entry.port))
                       ELSE Done([Logged(inv[i], w) EXCEPT
                                     !.msg = StartFailedMessage(inv[i].name, SaveError(w))],
                                 SaveError(w), NoUrl)]
    /\ UNCHANGED <<procs, last, calls>>

\* ------------------------------------------------------------------- stop
\* Workers that died on their own, or whose pid went to another process.
Faults == {q \in Pids : procs[q] \in {"crashed", "foreign", "stray"}}

\* process.kill(pid, 'SIGTERM'): delivered to the worker ("ok"); ESRCH, no
\* such process; another errno, EPERM; or delivered to an unrelated process
\* that was given the pid of a worker that died ("stray").  Whether a worker
\* that was left running has died in the meantime, and to whom its pid now
\* belongs, is decided when the signal is sent; so is whether a worker that
\* was sent SIGTERM has exited.
KillResults(pid) ==
    CASE procs[pid] = "live" ->
            {"ok"} \cup (IF Cardinality(Faults) < MaxFaults
                         THEN {"ESRCH", "EPERM", "stray"} ELSE {})
      [] procs[pid] = "term" -> {"ok", "ESRCH"}
      [] procs[pid] = "foreign" -> {"EPERM"}
      [] procs[pid] = "stray" -> {"stray", "ESRCH"}
      [] OTHER -> {"ESRCH"}

Killed(pid, r) ==
    CASE r = "ok" -> [procs EXCEPT ![pid] = "term"]
      [] r = "ESRCH" /\ procs[pid] = "live" -> [procs EXCEPT ![pid] = "crashed"]
      [] r = "EPERM" -> [procs EXCEPT ![pid] = "foreign"]
      [] r = "stray" -> [procs EXCEPT ![pid] = "stray"]
      [] OTHER -> procs

\* stopAll without its try/catch: the first failing stop ends the loop.
AfterStopAbort(c, n, e) ==
    IF c.op = "stop" \/ e # "none"
    THEN Done([c EXCEPT !.failed = IF e = "none" THEN @ ELSE @ \cup {n},
                        !.reports = IF e = "none" \/ c.op = "stop" THEN @ ELSE @ + 1],
              e, NoUrl)
    ELSE LET c2 == [c EXCEPT !.queue = Tail(@)]
         IN  IF c2.queue = <<>> THEN Done(c2, "none", NoUrl) ELSE [c2 EXCEPT !.pc = "get"]

\* stop(n) is over inside call c, with error e or with success ("none"):
\* stop returns to its caller; stopAll logs the error and goes on.
AfterStop(c, n, e) ==
    IF c.op = "stop"
    THEN Done([c EXCEPT !.failed = IF e = "none" THEN @ ELSE @ \cup {n}], e, NoUrl)
    ELSE LET c2 == [c EXCEPT !.queue = Tail(@),
                             !.failed = IF e = "none" THEN @ ELSE @ \cup {n},
                             !.reports = IF e = "none" THEN @ ELSE @ + 1]
         IN  IF c2.queue = <<>> THEN Done(c2, "none", NoUrl) ELSE [c2 EXCEPT !.pc = "get"]

\* stop(serverName) up to its first await inside removeSessionFromFile:
\* getSessionFromFile, the NotFound throw, process.kill and its catch.
StopBody(i, c0, n) ==
    LET c == [c0 EXCEPT !.name = n, !.tried = @ \cup {n}]
        info == getSessionFromFile(file, n)
    IN  IF info = NoRec
        THEN /\ inv' = [inv EXCEPT ![i] = AfterStop(c, n, MissingError)]
             /\ UNCHANGED procs
        ELSE \E r \in KillResults(info.pid) :
                LET k == [c EXCEPT !.killed = @ \cup {info.pid}, !.sent = Append(@, info.pid)]
                IN  /\ procs' = Killed(info.pid, r)
                    /\ inv' = [inv EXCEPT ![i] =
                         IF KillFails(r)
                         THEN AfterStop(k, n, "SignalDeliveryFailure")
                         ELSE [k EXCEPT !.pc = "rem_load"]]

stop(i, p) ==
    /\ inv[i].pc = "idle"
    /\ Begin
    /\ StopBody(i, [Idle EXCEPT !.op = "stop", !.before = file], p)
    /\ UNCHANGED <<file, last>>

\* removeSessionFromFile: sessions = await loadSessionsFromFile(); delete sessions[name]
removeSessionFromFileLoad(i) ==
    /\ inv[i].pc = "rem_load"
    /\ inv' = [inv EXCEPT ![i].pc = "rem_save",
                          ![i].buf = Del(loadSessionsFromFile(file), inv[i].name)]
    /\ UNCHANGED <<file, procs, last, calls>>

\* removeSessionFromFile: await saveSessionsToFile(sessions); stop returns
removeSessionFromFileSave(i) ==
    /\ inv[i].pc = "rem_save"
    /\ \E w \in WriteResults :
          /\ file' = Written(w, inv[i].buf)
          /\ inv' = [inv EXCEPT ![i] = AfterStop(Logged(inv[i], w), inv[i].name, SaveError(w))]
    /\ UNCHANGED <<procs, last, calls>>

\* ---------------------------------------------------------------- stopAll
\* stopAll: sessions = await loadSessionsFromFile(); Object.keys(sessions)
stopAll(i) ==
    /\ inv[i].pc = "idle"
    /\ Begin
    /\ LET names == Keys(loadSessionsFromFile(file))
           c == [Idle EXCEPT !.op = "stopAll", !.names = names, !.queue = names,
                             !.before = file]
       IN  inv' = [inv EXCEPT ![i] =
                IF names = <<>> THEN Done(c, "none", NoUrl) ELSE [c EXCEPT !.pc = "get"]]
    /\ UNCHANGED <<file, procs, last>>

\* stopAll: the next iteration of the for loop calls stop(serverName)
stopAllNext(i) ==
    /\ inv[i].pc = "get"
    /\ StopBody(i, inv[i], Head(inv[i].queue))
    /\ UNCHANGED <<file, last, calls>>

\* ------------------------------------------------------------------- list
\* list: the uptime text.  Math.floor of the milliseconds to seconds and
\* of the seconds to minutes; the text is the sequence of its parts.
formatUptimeSecondsOnly(uptimeMs) == <<uptimeMs \div 1000, "s">>
formatUptime(uptimeMs) ==
    LET uptimeSec == uptimeMs \div 1000
        uptimeMin == uptimeSec \div 60
    IN  IF uptimeMin > 0 THEN <<uptimeMin, "m ", uptimeSec % 60, "s">>
        ELSE <<uptimeSec, "s">>

\* list: one item per property of the file, in order.  An invocation is
\* TickMs after the one before it.
listItemsLive(sessions, now) ==
    LET live == SelectSeq(sessions, LAMBDA x : procs[x.pid] = "live")
    IN  [k \in 1..Len(live) |->
            [serverName |-> live[k].name, port |-> live[k].port, pid |-> live[k].pid,
             uptime |-> formatUptime((now - live[k].startedAt) * TickMs)]]
listItems(sessions, now) ==
    [k \in 1..Len(sessions) |->
        [serverName |-> sessions[k].name, port |-> sessions[k].port,
         pid |-> sessions[k].pid,
         uptime |-> formatUptime((now - sessions[k].startedAt) * TickMs)]]

list(i) ==
    /\ inv[i].pc = "idle"
    /\ Begin
    /\ LET sessions == loadSessionsFromFile(file)
           c == [Idle EXCEPT !.op = "list", !.before = file,
                             !.items = listItems(sessions, calls')]
       IN  inv' = [inv EXCEPT ![i] = Done(c, "none", NoUrl)]
    /\ UNCHANGED <<file, procs, last>>

\* The CLI invocation ends; the next one starts from scratch.
Return(i) ==
    /\ inv[i].pc = "done"
    /\ inv' = [inv EXCEPT ![i] = Idle]
    /\ last' = CASE inv[i].op = "start" /\ inv[i].err = "none" ->
                        [NoCall EXCEPT !.name = inv[i].name, !.url = inv[i].url]
                 [] inv[i].op = "start" /\ inv[i].err = "LaunchFailure" ->
                        [NoCall EXCEPT !.failed = inv[i].name, !.offered = inv[i].port]
                 [] inv[i].op = "stop" /\ inv[i].err = "none" ->
                        [NoCall EXCEPT !.stopped = inv[i].name,
                                       !.freed = getSessionFromFile(inv[i].before, inv[i].name).port]
                 [] OTHER -> NoCall
    /\ UNCHANGED <<file, procs, calls>>

Step(i) ==
    \/ \E p \in Providers : start(i, p)
    \/ addSessionToFileLoad(i)
    \/ addSessionToFileSave(i)
    \/ \E p \in Providers : stop(i, p)
    \/ removeSessionFromFileLoad(i)
    \/ removeSessionFromFileSave(i)
    \/ stopAll(i)
    \/ stopAllNext(i)
    \/ list(i)
    \/ Return(i)

\* The same manager on a disk whose writes may fail, found with up to
\* MaxFound sessions in the registry.
InitIO ==
    /\ \E k \in 0..MaxFound :
          /\ file \in FileOf(Filled(k))
          /\ procs = [q \in Pids |-> IF q <= k THEN "live" ELSE "none"]
    /\ inv = [i \in Inv |-> Idle]
    /\ last = NoCall
    /\ calls = 0
    /\ mem = NoMem
    /\ wk = NoWorker
    /\ fn = NoFn
    /\ disk = "faulty"
    /\ clients = NoClients

\* ------------------------------------------------- the CLI command `call`
\* src/index.ts, sessionCall(serverName, toolName, paramsJson).
\* The params argument: none, JSON text, text that is not JSON, an @file
\* reference to a file of JSON text, or - with JSON text on standard input.
ParamsArgs == {"omitted", "literal", "notJSON", "atFile", "dash"}

\* lines 241-252: params = {} or JSON.parse(paramsJson); "throws" for the catch
params(a) ==
    CASE a = "omitted" -> "{}"
      [] a = "literal" -> "object"
      [] OTHER -> "throws"

\* line 260: the next step the message for a missing session gives
NextStepNone(p) == [name |-> 0, hint |-> "none"]
NextStep(p) == [name |-> p, hint |-> "Start a session with: pnpm run session -- start"]

\* fetch of http://localhost:{port}/tool/{toolName}: it throws (nothing
\* accepts the connection), the front-end of the recorded worker answers
\* (200 with success true, 500 with success false), or, the worker being
\* gone, whatever else listens on the port answers with any status and body.
Reply(status, success) == [status |-> status, success |-> success]
Refused == Reply(0, FALSE)
FetchResults(info) ==
    IF procs[info.pid] = "live"
    THEN {Refused, Reply(200, TRUE), Reply(500, FALSE)}
    ELSE {Refused} \cup {Reply(st, su) : st \in {200, 404, 500}, su \in BOOLEAN}

\* lines 274-284: !response.ok and !result.success throw; else the result is printed
CallFailedOnStatus(f) == f = Refused \/ f.status \notin 200..299
CallFailed(f) == f = Refused \/ f.status \notin 200..299 \/ ~f.success

sessionCall(i, p, a) ==
    /\ inv[i].pc = "idle"
    /\ Begin
    /\ LET c == [Idle EXCEPT !.op = "call", !.name = p, !.before = file, !.cli.arg = a]
           info == getSessionFromFile(file, p)
       IN  IF params(a) = "throws"
           THEN inv' = [inv EXCEPT ![i] =
                    Done([c EXCEPT !.cli.exit = 1, !.cli.printed = "Failed to parse parameters as JSON"],
                         "ParamsNotJSON", NoUrl)]
           ELSE IF info = NoRec
           THEN inv' = [inv EXCEPT ![i] =
                    Done([c EXCEPT !.cli.exit = 1, !.cli.name = NextStep(p).name,
                                   !.cli.printed = "No active session found",
                                   !.cli.hint = NextStep(p).hint],
                         MissingError, NoUrl)]
           ELSE \E f \in FetchResults(info) :
                   inv' = [inv EXCEPT ![i] =
                      IF CallFailed(f)
                      THEN Done([c EXCEPT !.cli.requests = 1, !.cli.exit = 1, !.cli.reply = f,
                                          !.cli.printed = "Failed to call tool"],
                                "CallFailure", Url(info.port))
                      ELSE Done([c EXCEPT !.cli.requests = 1, !.cli.reply = f,
                                          !.cli.printed = "result"],
                                "none", Url(info.port))]
    /\ UNCHANGED <<file, procs, last>>

\* The session commands of the CLI, one invocation at a time.
NextCli ==
    /\ mem = NoMem
    /\ \/ Step(1)
       \/ \E p \in Providers, a \in ParamsArgs : sessionCall(1, p, a)
    /\ UNCHANGED <<mem, wk, fn, disk, clients>>

SpecCli == Init /\ [][NextCli]_vars

\* One CLI invocation at a time, each run to completion.
NextSeq == mem = NoMem /\ Step(1) /\ UNCHANGED <<mem, wk, fn, disk, clients>>

SpecSeq == Init /\ [][NextSeq]_vars
SpecIO == InitIO /\ [][NextSeq]_vars

\* Two CLI invocations at once, each running one call, at most one of them
\* stopAll.
NextConc ==
    /\ \E i \in Inv : (inv[i].pc = "idle" => calls < Cardinality(Inv)) /\ Step(i)
    /\ calls' <= Cardinality(Inv)
    /\ \E i \in Inv : inv'[i].op # "stopAll"
    /\ UNCHANGED <<mem, wk, fn, disk, clients>>

SpecConc == Init /\ [][NextConc]_vars

\* ================================================== the in-process manager
\* src/session-manager.ts: the session lives in the process that called
\* start; the registry entry carries that process's own pid.
HostPid(i) == i
EmptyMem == [sessions |-> <<>>, usedPorts |-> {}]
MemIdx(m, p) == {k \in 1..Len(m.sessions) : m.sessions[k].name = p}
MemHas(m, p) == MemIdx(m, p) # {}
MemGet(m, p) == m.sessions[CHOOSE k \in MemIdx(m, p) : TRUE]
MemSet(m, p, port, listening) ==
    [sessions |-> Append(m.sessions, [name |-> p, port |-> port, listening |-> listening]),
     usedPorts |-> m.usedPorts \cup {port}]
MemDeleteKeepsPort(m, p) ==
    [sessions |-> SelectSeq(m.sessions, LAMBDA x : x.name # p), usedPorts |-> m.usedPorts]
MemDelete(m, p) ==
    [sessions |-> SelectSeq(m.sessions, LAMBDA x : x.name # p),
     usedPorts |-> m.usedPorts \ {MemGet(m, p).port}]

\* allocatePort(): the first pool port not in this.usedPorts, 0 for the throw
allocatePortMem(usedPorts) ==
    IF \A k \in 1..Len(PORT_POOL) : PORT_POOL[k] \in usedPorts THEN 0
    ELSE PORT_POOL[CHOOSE k \in 1..Len(PORT_POOL) :
                      /\ PORT_POOL[k] \notin usedPorts
                      /\ \A j \in 1..(k - 1) : PORT_POOL[j] \in usedPorts]

\* initializeServer(serverName, config) connects or throws.
InitResults == {"ok", "throws"}

\* app.listen(port) when another running process listens on the port: the
\* error event ends the process before the registry is read (no listener
\* for it), or goes to the listen callback, which takes no notice.
Bound(i, port) ==
    \E j \in Inv \ {i} :
        /\ procs[HostPid(j)] = "live"
        /\ \E k \in 1..Len(mem[j].sessions) :
              mem[j].sessions[k].port = port /\ mem[j].sessions[k].listening
ListenResults(i, port) == IF Bound(i, port) THEN {"crash", "ignored"} ELSE {"ok"}

\* stop, the in-memory branch: httpServer.listen() on a server that is
\* listening throws; on one that is not, the server is closed again and
\* mcpClient.close() resolves or rejects.
CloseResults(listening) == IF listening THEN {"throws"} ELSE {"ok", "throws"}

\* A process that is sent a signal, or turns out to be gone, holds nothing.
Forget(pid) == [j \in Inv |-> IF HostPid(j) = pid THEN EmptyMem ELSE mem[j]]

MemFilled(k) ==
    [j \in 1..k |-> [name |-> j, port |-> PORT_POOL[j], pid |-> HostPid(1), startedAt |-> 0]]

\* Process 1 has started providers 1..k on an empty registry; process 2 is new.
InitMem ==
    /\ \E k \in 0..MaxFill :
          /\ file \in FileOf(MemFilled(k))
          /\ mem = [i \in Inv |->
                      IF i = 1
                      THEN [sessions |-> [j \in 1..k |-> [name |-> j, port |-> PORT_POOL[j],
                                                           listening |-> TRUE]],
                            usedPorts |-> {PORT_POOL[j] : j \in 1..k}]
                      ELSE EmptyMem]
    /\ procs = [q \in Pids |-> IF q \in {HostPid(i) : i \in Inv} THEN "live" ELSE "none"]
    /\ inv = [i \in Inv |-> Idle]
    /\ last = NoCall
    /\ calls = 0
    /\ wk = NoWorker
    /\ fn = NoFn
    /\ disk = "ok"
    /\ clients = NoClients

\* start(serverName, config) up to its first await inside addSessionToFile
startMem(i, p) ==
    /\ inv[i].pc = "idle"
    /\ procs[HostPid(i)] = "live"
    /\ Begin
    /\ LET m == mem[i]
           port == allocatePortMem(m.usedPorts)
           c == [Idle EXCEPT !.op = "start", !.name = p, !.before = file,
                             !.port = IF MemHas(m, p) THEN 0 ELSE port]
       IN  IF MemHas(m, p)
           THEN /\ inv' = [inv EXCEPT ![i] = Done(c, "none", Url(MemGet(m, p).port))]
                /\ UNCHANGED <<file, procs, last, mem>>
           ELSE IF port = 0
           THEN /\ inv' = [inv EXCEPT ![i] =
                             Done([c EXCEPT !.msg = PoolExhaustedMessage],
                                  "ResourceExhausted", NoUrl)]
                /\ UNCHANGED <<file, procs, last, mem>>
           ELSE \E r \in InitResults :
                   LET c1 == [c EXCEPT !.spawn = r] IN
                   IF r = "throws"
                   THEN /\ inv' = [inv EXCEPT ![i] =
                                     Done([c1 EXCEPT !.msg = StartFailedMessage(
                                               p, "message of the error initializeServer threw")],
                                          "LaunchFailure", NoUrl)]
                        /\ UNCHANGED <<file, procs, last, mem>>
                   ELSE \E l \in ListenResults(i, port) :
                           IF l = "crash"
                           THEN /\ procs' = [procs EXCEPT ![HostPid(i)] = "crashed"]
                                /\ mem' = Forget(HostPid(i))
                                /\ inv' = [inv EXCEPT ![i] = Idle]
                                /\ UNCHANGED <<file, last>>
                           ELSE /\ mem' = [mem EXCEPT ![i] = MemSet(m, p, port, l = "ok")]
                                /\ inv' = [inv EXCEPT ![i] =
                                     [c1 EXCEPT !.pc = "add_load",
                                                !.entry = [port |-> port, pid |-> HostPid(i),
                                                           startedAt |-> calls']]]
                                /\ UNCHANGED <<file, procs, last>>

\* stop(serverName) up to its first await inside removeSessionFromFile
StopBodyMem(i, c0, n) ==
    LET c == [c0 EXCEPT !.name = n, !.tried = @ \cup {n}]
        info == getSessionFromFile(file, n)
        m == mem[i]
    IN  IF info = NoRec
        THEN /\ inv' = [inv EXCEPT ![i] = AfterStop(c, n, MissingError)]
             /\ UNCHANGED <<procs, mem>>
        ELSE IF MemHas(m, n)
        THEN \E r \in CloseResults(MemGet(m, n).listening) :
                IF r = "throws"
                THEN /\ inv' = [inv EXCEPT ![i] = AfterStop(c, n, "CloseFailure")]
                     /\ UNCHANGED <<procs, mem>>
                ELSE /\ mem' = [mem EXCEPT ![i] = MemDelete(m, n)]
                     /\ inv' = [inv EXCEPT ![i] = [c EXCEPT !.pc = "rem_load"]]
                     /\ UNCHANGED procs
        ELSE \E r \in KillResults(info.pid) :
                /\ procs' = Killed(info.pid, r)
                /\ mem' = Forget(info.pid)
                /\ inv' = [inv EXCEPT ![i] =
                     [c EXCEPT !.killed = @ \cup {info.pid}, !.sent = Append(@, info.pid),
                               !.pc = "rem_load"]]

stopMem(i, p) ==
    /\ inv[i].pc = "idle"
    /\ procs[HostPid(i)] = "live"
    /\ Begin
    /\ StopBodyMem(i, [Idle EXCEPT !.op = "stop", !.before = file], p)
    /\ UNCHANGED <<file, last>>

stopAllNextMem(i) ==
    /\ inv[i].pc = "get"
    /\ StopBodyMem(i, inv[i], Head(inv[i].queue))
    /\ UNCHANGED <<file, last, calls>>

\* The process ends: the operator interrupts it, or it dies.
hostExit(i) ==
    /\ \A j \in Inv : inv[j].pc = "idle"
    /\ procs[HostPid(i)] = "live"
    /\ Cardinality(Faults) < MaxFaults
    /\ procs' = [procs EXCEPT ![HostPid(i)] = "crashed"]
    /\ mem' = Forget(HostPid(i))
    /\ UNCHANGED <<file, inv, last, calls>>

\* The registry helpers, list and stopAll's first step are the same code
\* in both managers.
StepMem(i) ==
    \/ \E p \in Providers : startMem(i, p)
    \/ addSessionToFileLoad(i) /\ UNCHANGED mem
    \/ addSessionToFileSave(i) /\ UNCHANGED mem
    \/ \E p \in Providers : stopMem(i, p)
    \/ removeSessionFromFileLoad(i) /\ UNCHANGED mem
    \/ removeSessionFromFileSave(i) /\ UNCHANGED mem
    \/ procs[HostPid(i)] = "live" /\ stopAll(i) /\ UNCHANGED mem
    \/ stopAllNextMem(i)
    \/ procs[HostPid(i)] = "live" /\ list(i) /\ UNCHANGED mem
    \/ Return(i) /\ UNCHANGED mem
    \/ hostExit(i)

\* Calls made one at a time, each run to completion, by either process.
NextMem ==
    /\ mem # NoMem
    /\ \E i \in Inv : (\A j \in Inv \ {i} : inv[j].pc = "idle") /\ StepMem(i)
    /\ UNCHANGED <<wk, fn, disk, clients>>

SpecMem == InitMem /\ [][NextMem]_vars

\* Either manager.
Next == NextSeq \/ NextMem
Spec == (Init \/ InitMem) /\ [][Next]_vars

\* ====================================================== the session worker
\* src/unnamed/part_007, the process start spawns: main() checks its
\* arguments, awaits initializeServer, wraps the client in the HTTP server
\* (src/unnamed/part_005) and only then installs its SIGTERM and SIGINT
\* handlers.
WorkerArgs ==
    {"ok", "noServerName", "noPort", "noConfig", "portNaN", "portBlank", "configNotJSON"}

\* process.argv[3] of a launch: no argument, letters, white space only, or
\* the digits start passes.
portArg(a) ==
    CASE a = "noPort" -> ""
      [] a = "portNaN" -> "abc"
      [] a = "portBlank" -> " "
      [] OTHER -> "3978"

\* Number(portArg): the empty string and white space convert to 0, text
\* that is no numeric literal to NaN.
Number(text) ==
    CASE text \in {"", " "} -> [nan |-> FALSE, value |-> 0]
      [] text = "abc" -> [nan |-> TRUE, value |-> 0]
      [] OTHER -> [nan |-> FALSE, value |-> 3978]

\* lines 13, 19 and 25-29: the three checks that end in process.exit(1)
ArgsRejected(a) ==
    \/ a \in {"noServerName", "noConfig"} \/ portArg(a) = ""
    \/ Number(portArg(a)).nan
    \/ a = "configNotJSON"
Signals == {"SIGTERM", "SIGINT"}

\* Worker(a): the process just spawned with arguments a.
\*   conn      the protocol connection: "none", "opening" (the transport is
\*             started, the handshake is under way), "open", "closed", "failed"
\*   connects  the calls of client.connect(transport) so far
\*   listener  the HTTP listener: "none", "open", "closed"
\*   how       how the process ended: "exit0", "exit1", "signal" (the default
\*             action of a signal nobody handles), "rejection" (a promise
\*             rejected with no handler)
\*   inflight  tool requests whose handler awaits callTool
\*   responses the responses sent, each with the outcome of its callTool
\*   pid, port its process id and the port it was spawned with, where the
\*             manager that spawned it is looked at too (0 otherwise)
Worker(a) == [NoWorker EXCEPT !.args = a, !.pc = "main"]

manager == <<file, procs, inv, last, calls, mem, disk, clients>>

InitWorker ==
    /\ file = saveSessionsToFile(<<>>)
    /\ procs = [q \in Pids |-> "none"]
    /\ inv = [i \in Inv |-> Idle]
    /\ last = NoCall
    /\ calls = 0
    /\ mem = NoMem
    /\ \E a \in WorkerArgs : wk = Worker(a)
    /\ fn = NoFn
    /\ disk = "ok"
    /\ clients = NoClients

\* process.exit(code)
ExitIgnored(w, code) == w
Exit(w, code) == [w EXCEPT !.pc = "exited", !.exits = @ + 1, !.how = code]

\* lines 10-33: the argument checks, then the call of initializeServer
workerMain ==
    /\ wk.pc = "main"
    /\ wk' = IF ArgsRejected(wk.args) THEN Exit(wk, "exit1")
             ELSE [wk EXCEPT !.pc = "connecting", !.conn = "opening", !.connects = @ + 1]
    /\ UNCHANGED <<manager, fn>>

\* lines 33-52: initializeServer resolves, the wrapper listens and the
\* handlers are installed; or it rejects and the catch exits.
workerConnected ==
    /\ wk.pc = "connecting"
    /\ \E r \in InitResults :
          wk' = IF r = "throws" THEN Exit([wk EXCEPT !.conn = "failed"], "exit1")
                ELSE [wk EXCEPT !.pc = "serving", !.conn = "open",
                                !.listener = "open", !.handlers = TRUE]
    /\ UNCHANGED <<manager, fn>>

\* shutdown(signal), up to its first await
shutdownAlways(w, sig) ==
    [w EXCEPT !.shuttingDown = TRUE, !.by = sig,
              !.clientCloses = @ + 1, !.pc = "closingClient"]
shutdown(w, sig) ==
    IF w.shuttingDown THEN [w EXCEPT !.ignored = @ + 1]
    ELSE [w EXCEPT !.shuttingDown = TRUE, !.by = sig,
                   !.clientCloses = @ + 1, !.pc = "closingClient"]

\* The process is sent SIGTERM (process.kill of stop) or SIGINT.  With no
\* handler installed the signal ends the process there and then.
Deliver(w0, sig) ==
    LET w == [w0 EXCEPT !.signals = @ + 1]
    IN  IF ~w.handlers THEN [w EXCEPT !.pc = "exited", !.how = "signal", !.by = sig]
        ELSE shutdown(w, sig)

workerSignal(sig) ==
    /\ wk.pc \notin {"absent", "exited"}
    /\ wk.signals < MaxSignals
    /\ wk' = Deliver(wk, sig)
    /\ UNCHANGED <<manager, fn>>

\* await client.close() resolves, and server.close is called; or it
\* rejects: shutdown was called with void, nothing handles the rejection
\* and the process ends on it.
ClientCloseResults == {"ok", "rejects"}
workerClientClosed ==
    /\ wk.pc = "closingClient"
    /\ \E r \in ClientCloseResults :
          wk' = IF r = "rejects" THEN [wk EXCEPT !.pc = "exited", !.how = "rejection"]
                ELSE [wk EXCEPT !.conn = "closed", !.serverCloses = @ + 1,
                                !.pc = "closingServer"]
    /\ UNCHANGED <<manager, fn>>

\* The callback of server.close runs once no request is being served; it
\* resolves the promise, and process.exit(0) follows.
workerServerClosed ==
    /\ wk.pc = "closingServer"
    /\ wk.inflight = 0
    /\ wk' = Exit([wk EXCEPT !.listener = "closed"], "exit0")
    /\ UNCHANGED <<manager, fn>>

\* ---------------------------------------------------- the HTTP front-end
\* What mcpClient.callTool settles with: a result, or a thrown value, an
\* Error with its message or something that is not an Error.
Result == [kind |-> "result", text |-> "content"]
Thrown ==
    {[kind |-> "Error", text |-> "Not connected"],
     [kind |-> "Error", text |-> ""],
     [kind |-> "string", text |-> "timeout"],
     [kind |-> "undefined", text |-> ""]}

\* String(error) of a value that is not an Error
String(t) == IF t.kind = "undefined" THEN "undefined" ELSE t.text

\* error instanceof Error ? error.message : String(error)
errorText(t) == IF t.kind = "Error" THEN t.text ELSE String(t)

\* res.json({success: true, result}) / res.status(500).json({success: false, error})
Respond(t) ==
    IF t.kind = "result"
    THEN [outcome |-> t, status |-> 200, success |-> TRUE, result |-> t.text, error |-> "none"]
    ELSE [outcome |-> t, status |-> 500, success |-> FALSE, result |-> "none",
          error |-> errorText(t)]

\* callTool on a connection that is open settles either way; on one that
\* is being closed or is closed it rejects.
CallResults(w) == IF w.conn = "open" /\ w.pc = "serving" THEN {Result} \cup Thrown ELSE Thrown

\* The connection the handler calls callTool on: mcpClient, the client
\* main connected and passed to createSessionHTTPWrapper; connections are
\* numbered in the order they were opened.
ForwardNew(w) == w.connects + 1
Forward(w) == w.connects

\* POST /tool/:toolName arrives: the handler runs up to await callTool
toolRequest ==
    /\ wk.pc \in {"serving", "closingClient"}
    /\ wk.listener = "open"
    /\ wk.requests < MaxRequests
    /\ wk' = [wk EXCEPT !.requests = @ + 1, !.inflight = @ + 1]
    /\ UNCHANGED <<manager, fn>>

\* callTool settles: the rest of the handler
toolResponse ==
    /\ wk.pc \in {"serving", "closingClient", "closingServer"}
    /\ wk.inflight > 0
    /\ \E t \in CallResults(wk) :
          wk' = [wk EXCEPT !.inflight = @ - 1,
                           !.responses = Append(@, Respond(t) @@ [via |-> Forward(wk)])]
    /\ UNCHANGED <<manager, fn>>

NextWorker ==
    \/ workerMain
    \/ workerConnected
    \/ \E sig \in Signals : workerSignal(sig)
    \/ workerClientClosed
    \/ workerServerClosed
    \/ toolRequest
    \/ toolResponse

SpecWorker == InitWorker /\ [][NextWorker]_vars

\* The event loop runs a continuation once the promise it awaits has
\* settled: client.close() settles, callTool settles, and the callback of
\* server.close runs once the requests being served are answered.
FairWorker ==
    /\ WF_vars(workerClientClosed)
    /\ WF_vars(workerServerClosed)
    /\ WF_vars(toolResponse)
SpecWorkerFair == SpecWorker /\ FairWorker

\* ============================================ a session and its worker
\* The detached-worker manager, one CLI invocation at a time, together with
\* the worker of one session: the worker of the record of provider 1, at
\* any point of its life before a signal, or the worker the first start
\* that launches one will spawn.  The registry is found with up to MaxFound records.
WorkerOf(e) == [Worker("ok") EXCEPT !.pid = e.pid, !.port = e.port]
WorkerStates(e) ==
    {WorkerOf(e),
     [WorkerOf(e) EXCEPT !.pc = "connecting", !.conn = "opening", !.connects = 1],
     [WorkerOf(e) EXCEPT !.pc = "serving", !.conn = "open", !.connects = 1,
                         !.listener = "open", !.handlers = TRUE],
     Exit([WorkerOf(e) EXCEPT !.conn = "failed", !.connects = 1], "exit1")}

InitLife ==
    /\ \E k \in 0..MaxFound :
          /\ file \in FileOf(Filled(k))
          /\ wk \in {NoWorker} \cup (IF k = 0 THEN {} ELSE WorkerStates(EntryOf(Filled(k)[1])))
          /\ procs = [q \in Pids |-> IF q > k THEN "none"
                                     ELSE IF q = wk.pid /\ wk.pc = "exited" THEN "crashed"
                                     ELSE "live"]
    /\ inv = [i \in Inv |-> Idle]
    /\ last = NoCall
    /\ calls = 0
    /\ mem = NoMem
    /\ fn = NoFn
    /\ disk = "ok"
    /\ clients = NoClients

\* start: the child spawn returns is the worker looked at, if none is yet
lifeStart ==
    /\ \E p \in Providers : start(1, p)
    /\ wk' = IF wk = NoWorker /\ inv'[1].pc = "add_load" THEN WorkerOf(inv'[1].entry) ELSE wk
    /\ UNCHANGED <<mem, fn, disk, clients>>

\* stop, by itself or inside stopAll: process.kill on the pid of the worker
\* looked at delivers SIGTERM to it while it runs, and finds no such
\* process, or another one, once it has exited.
lifeStop ==
    /\ (\E p \in Providers : stop(1, p)) \/ stopAllNext(1)
    /\ LET hit == /\ wk.pid \in inv'[1].killed
                  /\ inv[1].pc = "idle" \/ wk.pid \notin inv[1].killed
       IN  IF ~hit THEN wk' = wk
           ELSE IF wk.pc = "exited"
           THEN /\ procs[wk.pid] = "live" => procs'[wk.pid] # "term"
                /\ wk' = wk
           ELSE /\ procs'[wk.pid] = "term"
                /\ wk' = Deliver(wk, "SIGTERM")
    /\ UNCHANGED <<mem, fn, disk, clients>>

\* the steps of the manager that reach no process
lifeManager ==
    /\ \/ addSessionToFileLoad(1)
       \/ addSessionToFileSave(1)
       \/ removeSessionFromFileLoad(1)
       \/ removeSessionFromFileSave(1)
       \/ stopAll(1)
       \/ list(1)
       \/ Return(1)
    /\ UNCHANGED <<mem, wk, fn, disk, clients>>

NextLife ==
    \/ lifeStart
    \/ lifeStop
    \/ lifeManager
    \/ workerMain
    \/ workerConnected
    \/ workerClientClosed
    \/ workerServerClosed

SpecLife == InitLife /\ [][NextLife]_vars

\* =================================================== the protocol wrapper
\* src/mcp-client.ts: initializeServer, callMCPTool, listServerTools and
\* closeAllServers over the module's Map of clients, their calls
\* interleaving at the awaits.
MapHas(cache, n) == \E k \in 1..Len(cache) : cache[k].name = n
\* clients.get(serverName)
MapGet(cache, n) ==
    IF MapHas(cache, n) THEN cache[CHOOSE k \in 1..Len(cache) : cache[k].name = n].client
    ELSE 0
\* clients.set(serverName, client)
MapSet(cache, n, c) ==
    IF MapHas(cache, n)
    THEN [cache EXCEPT ![CHOOSE k \in 1..Len(cache) : cache[k].name = n].client = c]
    ELSE Append(cache, [name |-> n, client |-> c])
\* clients.delete(name)
MapDelete(cache, n) == SelectSeq(cache, LAMBDA e : e.name # n)

\* line 25: clients.has(serverName)
CachedNever(cache, n) == FALSE
Cached(cache, n) == MapHas(cache, n)

Res(op, step, n, out, err) ==
    [op |-> op, step |-> step, name |-> n, out |-> out, err |-> err,
     before |-> clients.cache, opened |-> clients.opened]
Pending == clients.pend[1] + clients.pend[2]

others == <<file, procs, inv, last, calls, mem, wk, fn, disk>>

InitClient ==
    /\ file = Unreadable
    /\ procs = [q \in Pids |-> "none"]
    /\ inv = [i \in Inv |-> Idle]
    /\ last = NoCall
    /\ calls = 0
    /\ mem = NoMem
    /\ wk = NoWorker
    /\ fn = NoFn
    /\ disk = "ok"
    /\ clients = NoClients

\* initializeServer up to await client.connect(transport): the cached
\* client is returned, or a transport and a client are made and connect
\* is called.
initializeServer(n) ==
    /\ IF Cached(clients.cache, n)
       THEN clients' = [clients EXCEPT !.res = Res("initializeServer", "cached", n,
                                                   MapGet(clients.cache, n), "none")]
       ELSE /\ clients.opened + Pending < MaxOpens
            /\ clients' = [clients EXCEPT !.pend[n] = @ + 1,
                                          !.res = Res("initializeServer", "connecting", n, 0, "none")]
    /\ UNCHANGED others

\* lines 47-50: connect resolves, the client is cached and returned; or it
\* rejects and initializeServer rejects with it.
connected(n) ==
    /\ clients.pend[n] > 0
    /\ \E r \in InitResults :
          clients' = IF r = "ok"
                     THEN [clients EXCEPT !.pend[n] = @ - 1, !.opened = @ + 1,
                                          !.cache = MapSet(@, n, clients.opened + 1),
                                          !.res = Res("initializeServer", "connected", n,
                                                      clients.opened + 1, "none")]
                     ELSE [clients EXCEPT !.pend[n] = @ - 1,
                                          !.res = Res("initializeServer", "failed", n, 0,
                                                      "rejection of connect")]
    /\ UNCHANGED others

\* callMCPTool: the not-initialized throw, or client.callTool, whose
\* rejection is wrapped
callMCPTool(n) ==
    /\ LET client == MapGet(clients.cache, n)
       IN  IF client = 0
           THEN clients' = [clients EXCEPT !.res = Res("callMCPTool", "thrown", n, 0,
                                                       "not initialized")]
           ELSE \E t \in {"none", "Failed to call tool"} :
                   clients' = [clients EXCEPT !.res = Res("callMCPTool", "called", n, client, t)]
    /\ UNCHANGED others

\* listServerTools: the not-initialized throw, or client.listTools
listServerTools(n) ==
    /\ LET client == MapGet(clients.cache, n)
       IN  IF client = 0
           THEN clients' = [clients EXCEPT !.res = Res("listServerTools", "thrown", n, 0,
                                                       "not initialized")]
           ELSE \E t \in {"none", "rejection of listTools"} :
                   clients' = [clients EXCEPT !.res = Res("listServerTools", "called", n, client, t)]
    /\ UNCHANGED others

\* closeAllServers: the iterator over clients.entries() gives the first
\* entry, whose close is awaited, or is done at once.
closeAllServers ==
    /\ clients.closing = NoEntry
    /\ clients' = IF clients.cache = <<>>
                  THEN [clients EXCEPT !.res = Res("closeAllServers", "completed", 0, 0, "none")]
                  ELSE [clients EXCEPT !.closing = clients.cache[1],
                                       !.res = Res("closeAllServers", "closing", 0, 0, "none")]
    /\ UNCHANGED others

\* closeAllServers: client.close() resolves, the entry is deleted and the
\* iterator moves on; or it rejects and closeAllServers rejects with it.
closeNext ==
    /\ clients.closing # NoEntry
    /\ \E r \in {"ok", "throws"} :
          LET rest == MapDelete(clients.cache, clients.closing.name)
          IN  clients' =
                IF r = "throws"
                THEN [clients EXCEPT !.closing = NoEntry,
                                     !.res = Res("closeAllServers", "failed", clients.closing.name,
                                                 0, "rejection of close")]
                ELSE [clients EXCEPT
                        !.closed = @ \cup {clients.closing.client},
                        !.cache = rest,
                        !.closing = IF rest = <<>> THEN NoEntry ELSE rest[1],
                        !.res = IF rest = <<>>
                                THEN Res("closeAllServers", "completed", 0, 0, "none")
                                ELSE Res("closeAllServers", "closing", 0, 0, "none")]
    /\ UNCHANGED others

NextClient ==
    \/ \E n \in ServerNames : initializeServer(n)
    \/ \E n \in ServerNames : connected(n)
    \/ \E n \in ServerNames : callMCPTool(n)
    \/ \E n \in ServerNames : listServerTools(n)
    \/ closeAllServers
    \/ closeNext

SpecClient == InitClient /\ [][NextClient]_vars

\* ================================================ functions on their own
\* The uptime of a session list() finds Date.now() - startedAt = ms old.
UptimeInputs == {s * 1000 + r : s \in 0..MaxSeconds, r \in {0, 999}}

\* The SessionsFile objects of at most two entries that start can have built.
EntryInputs ==
    [name : Providers, port : PoolPorts, pid : 1..3, startedAt : 0..1]
SessionsInputs ==
    {<<>>} \cup {<<e>> : e \in EntryInputs}
           \cup {<<e1, e2>> : e1 \in {e \in EntryInputs : e.name = 1},
                              e2 \in {e \in EntryInputs : e.name # 1}}

\* The registries allocatePort can be given: up to five records, their
\* ports any ports of the pool in any order, repeated or not.
PortSeqs == UNION {[1..n -> PoolPorts] : n \in 0..Len(PORT_POOL)}
AllocInputs ==
    {[k \in 1..Len(q) |-> [name |-> k, port |-> q[k], pid |-> k, startedAt |-> 0]] :
        q \in PortSeqs}

InitPure ==
    /\ file = Unreadable
    /\ procs = [q \in Pids |-> "none"]
    /\ inv = [i \in Inv |-> Idle]
    /\ last = NoCall
    /\ calls = 0
    /\ mem = NoMem
    /\ wk = NoWorker
    /\ disk = "ok"
    /\ clients = NoClients
    /\ \/ \E ms \in UptimeInputs : fn = [NoFn EXCEPT !.f = "formatUptime", !.in = ms]
       \/ \E x \in SessionsInputs : fn = [NoFn EXCEPT !.f = "roundTrip", !.in = x]
       \/ \E x \in AllocInputs : fn = [NoFn EXCEPT !.f = "allocatePort", !.in = x]

applyFormatUptime ==
    /\ fn.f = "formatUptime" /\ ~fn.applied
    /\ fn' = [fn EXCEPT !.out = formatUptime(fn.in), !.applied = TRUE]
    /\ UNCHANGED <<manager, wk>>

\* saveSessionsToFile(x), then loadSessionsFromFile() by any process
applyRoundTrip ==
    /\ fn.f = "roundTrip" /\ ~fn.applied
    /\ file' = saveSessionsToFile(fn.in)
    /\ fn' = [fn EXCEPT !.out = loadSessionsFromFile(file'), !.applied = TRUE]
    /\ UNCHANGED <<procs, inv, last, calls, mem, wk, disk, clients>>

applyAllocatePort ==
    /\ fn.f = "allocatePort" /\ ~fn.applied
    /\ fn' = [fn EXCEPT !.out = allocatePort(fn.in), !.applied = TRUE]
    /\ UNCHANGED <<manager, wk>>

NextPure == applyFormatUptime \/ applyRoundTrip \/ applyAllocatePort

SpecPure == InitPure /\ [][NextPure]_vars

\* ---------------------------------- properties of calls made one at a time
Returned(i, op) == inv[i].pc = "done" /\ inv[i].op = op
Registry == loadSessionsFromFile(file)
Before(i) == loadSessionsFromFile(inv[i].before)
PortsOf(sessions) == {sessions[k].port : k \in 1..Len(sessions)}
PoolFull(sessions) == PoolPorts \subseteq PortsOf(sessions)
SignalFound(i, state) == \E q \in inv[i].killed : procs[q] = state

\* C1: when start(p) returns and the call before it was a start(p) that
\* returned an address, the second call returns that same address and the
\* registry holds exactly one entry for p.
C1_IdempotentStart ==
    \A i \in Inv :
        (Returned(i, "start") /\ last.name = inv[i].name)
            => /\ inv[i].err = "none"
               /\ inv[i].url = last.url
               /\ Cardinality(Idx(Registry, inv[i].name)) = 1

\* C2: in every state reached by start, stop, stopAll and list calls run
\* one after the other, no two records of the registry hold the same port.
C2_PortUniqueness ==
    \A j, k \in 1..Len(Registry) : j # k => Registry[j].port # Registry[k].port

\* C3: start(p) called when every pool port is held by a record and p has
\* none throws the pool-exhausted error without calling spawn, and the
\* registry is what it was.
C3_PoolExhaustion ==
    \A i \in Inv :
        (Returned(i, "start") /\ PoolFull(Before(i)) /\ ~Has(Before(i), inv[i].name))
            => /\ inv[i].err = "ResourceExhausted"
               /\ inv[i].spawn = "none"
               /\ inv[i].entry = NoRec
               /\ file = inv[i].before

C3_Witness ==
    /\ Returned(1, "start") /\ inv[1].err = "ResourceExhausted"
    /\ PoolFull(Registry) /\ Len(Registry) = Len(PORT_POOL) /\ ~Has(Registry, inv[1].name)

C5_StopUnknown ==
    \A i \in Inv :
        (Returned(i, "stop") /\ ~Has(Before(i), inv[i].name))
            => /\ inv[i].err = "NotFound"
               /\ inv[i].killed = {}
               /\ file = inv[i].before

C5_Witness ==
    /\ Returned(1, "stop") /\ inv[1].err = "NotFound"
    /\ Registry # <<>> /\ ~Has(Registry, inv[1].name)

\* C6: stop(p) whose signal failed with an error other than ESRCH throws,
\* and p's entry is still in the registry, which is what it was.
C6_SignalFailureKeepsRecord ==
    \A i \in Inv :
        (Returned(i, "stop") /\ SignalFound(i, "foreign"))
            => /\ inv[i].err = "SignalDeliveryFailure"
               /\ Has(Registry, inv[i].name)
               /\ file = inv[i].before

\* C7: when stopAll returns it has called stop on every provider that was
\* in the registry when it was called, one error was logged per provider
\* whose stop threw, and the registry holds exactly the entries of those
\* providers, unchanged.
C7_StopAllIsolation ==
    \A i \in Inv :
        Returned(i, "stopAll")
            => /\ inv[i].names = Keys(Before(i))
               /\ inv[i].tried = Names(Before(i))
               /\ inv[i].reports = Cardinality(inv[i].failed)
               /\ inv[i].failed \subseteq Names(Before(i))
               /\ Registry = SelectSeq(Before(i), LAMBDA x : x.name \in inv[i].failed)

C7_Witness ==
    /\ Returned(1, "stopAll")
    /\ Len(inv[1].names) >= 3
    /\ inv[1].failed = {inv[1].names[2]}
    /\ inv[1].reports = 1
    /\ Names(Registry) = {inv[1].names[2]}

\* C8: a start(p) that throws, and every start(p) whose launch threw or
\* gave no pid, leaves the registry as it was; p, which had no entry, has
\* none, and the call holds no port.
C8_FailedStartNoTrace ==
    \A i \in Inv :
        (Returned(i, "start") /\ (inv[i].err # "none" \/ inv[i].spawn \in {"throws", "nopid"}))
            => /\ inv[i].err \in {"ResourceExhausted", "LaunchFailure"}
               /\ file = inv[i].before
               /\ inv[i].entry = NoRec
               /\ mem = NoMem => ~Has(Registry, inv[i].name)
               /\ mem # NoMem => /\ ~MemHas(mem[i], inv[i].name)
                                 /\ mem[i].usedPorts = PortsOf(mem[i].sessions)

C8_Witness ==
    /\ Returned(1, "start") /\ inv[1].err = "LaunchFailure" /\ inv[1].spawn = "nopid"
    /\ Registry # <<>>

\* ----------------------------------------------- properties, two processes
BothStarted ==
    /\ \A i \in Inv : /\ inv[i].pc = "done" /\ inv[i].op = "start"
                      /\ inv[i].err = "none" /\ inv[i].spawn = "ok"
    /\ inv[1].name # inv[2].name

\* C9: when two overlapping start calls for different providers have both
\* returned an address after spawning a worker, the two workers are
\* running, every entry of the two that is in the registry is the one its
\* call wrote, and at least one of the two is there; the state where only
\* one of the two is there is reached.
C9_LostUpdateShape ==
    BothStarted
        => /\ \A i \in Inv : procs[inv[i].entry.pid] = "live"
           /\ \A i \in Inv : Has(Registry, inv[i].name)
                                => Get(Registry, inv[i].name) = inv[i].entry
           /\ \E i \in Inv : Has(Registry, inv[i].name)

C9_Witness ==
    /\ BothStarted
    /\ \A i \in Inv : procs[inv[i].entry.pid] = "live"
    /\ \A i \in Inv : inv[i].url = Url(inv[i].entry.port)
    /\ Has(Registry, inv[2].name) /\ ~Has(Registry, inv[1].name)

\* C10: while two start calls for different providers overlap, the
\* registry never holds two records with the same port.
C10_PortUniquenessInterleaved ==
    Cardinality(PortsOf(Registry)) = Len(Registry)

\* ------------------------------------------- properties of the session worker
\* C11: a worker that ended after stop sent it SIGTERM, at whatever point
\* of its life the signal reached it, has closed its protocol connection
\* and its HTTP listener, as far as it had opened them.
C11_SignalAlwaysCleansUp ==
    (wk.pc = "exited" /\ wk.by = "SIGTERM")
        => /\ wk.conn \in {"none", "closed"}
           /\ wk.listener \in {"none", "closed"}

\* C12: a further SIGTERM or SIGINT during the shutdown does nothing: the
\* connection is closed at most once, the listener is closed at most once
\* and exit is requested at most once.
C12_SecondSignalNoOp ==
    /\ wk.clientCloses <= 1
    /\ wk.serverCloses <= 1
    /\ wk.exits <= 1

C12_Witness ==
    /\ wk.how = "exit0"
    /\ wk.ignored >= 2
    /\ wk.clientCloses = 1 /\ wk.serverCloses = 1 /\ wk.exits = 1

\* C13: a worker whose handler took a termination signal is gone only
\* after the close of the protocol connection and the close of the HTTP
\* listener have both completed.
C13_ExitAfterBothCloses ==
    (wk.pc = "exited" /\ wk.shuttingDown)
        => wk.conn = "closed" /\ wk.listener = "closed"

\* C14: every tool request whose callTool failed was answered with status
\* 500 and {success: false, error: e}, e a string that is not empty; every
\* one whose callTool succeeded with {success: true, result}.
C14_ErrorEnvelope ==
    \A k \in 1..Len(wk.responses) :
        LET r == wk.responses[k]
        IN  IF r.outcome.kind = "result"
            THEN r.status = 200 /\ r.success /\ r.result = r.outcome.text
            ELSE r.status = 500 /\ ~r.success /\ r.error # "" /\ r.error # "none"

\* ------------------------------------ further properties, one call at a time
\* C15: start(p) called when the registry has a record for p returns the
\* address of that record's port without calling spawn, without taking a
\* port and without writing the registry, whatever became of the recorded
\* process.
C15_ExistingRecordReused ==
    \A i \in Inv :
        (Returned(i, "start") /\ Has(Before(i), inv[i].name))
            => /\ inv[i].err = "none"
               /\ inv[i].url = Url(Get(Before(i), inv[i].name).port)
               /\ inv[i].spawn = "none"
               /\ inv[i].entry = NoRec
               /\ file = inv[i].before

C15_Witness ==
    /\ Returned(1, "start") /\ Has(Before(1), inv[1].name)
    /\ procs[Get(Before(1), inv[1].name).pid] = "foreign"
    /\ inv[1].url = Url(Get(Registry, inv[1].name).port)

\* C16: list() leaves the registry file as it was, calls neither spawn
\* nor kill, and returns one item per entry of the registry, in order, with
\* the entry's name, port and pid, stale entries included.
C16_ListIsPureRead ==
    \A i \in Inv :
        Returned(i, "list")
            => /\ file = inv[i].before
               /\ inv[i].spawn = "none" /\ inv[i].entry = NoRec
               /\ inv[i].killed = {} /\ inv[i].tried = {}
               /\ Len(inv[i].items) = Len(Before(i))
               /\ \A k \in 1..Len(Before(i)) :
                     /\ inv[i].items[k].serverName = Before(i)[k].name
                     /\ inv[i].items[k].port = Before(i)[k].port
                     /\ inv[i].items[k].pid = Before(i)[k].pid

C16_Witness ==
    /\ Returned(1, "list")
    /\ Len(inv[1].items) >= 2
    /\ \E k \in 1..Len(inv[1].items) : procs[inv[1].items[k].pid] = "foreign"
    /\ \E k \in 1..Len(inv[1].items) : procs[inv[1].items[k].pid] = "live"

\* ------------------------------------------ properties of single functions
\* C17: the uptime text of a session s whole seconds old, s >= 0, is
\* "{s}s" when s < 60 and "{s div 60}m {s mod 60}s" when s >= 60; 45 gives
\* "45s" and 65 gives "1m 5s".
C17_UptimeFormat ==
    (fn.f = "formatUptime" /\ fn.applied)
        => LET s == fn.in \div 1000
           IN  /\ s < 60 => fn.out = <<s, "s">>
               /\ s >= 60 => fn.out = <<s \div 60, "m ", s % 60, "s">>
               /\ s = 45 => fn.out = <<45, "s">>
               /\ s = 65 => fn.out = <<1, "m ", 5, "s">>

C17_Witness ==
    fn.f = "formatUptime" /\ fn.applied /\ fn.in = 65999 /\ fn.out = <<1, "m ", 5, "s">>

C19_SessionLimit == Len(Registry) <= Len(PORT_POOL)

\* C20: a record that is in the registry before and after a step has the
\* same port, pid and startedAt after it as before it; a record changes
\* only by being removed and written anew.  This is to hold also while
\* several start(p) calls of separate CLI invocations overlap.
RecordsKept ==
    \A p \in Providers :
        (Has(Registry, p) /\ Has(loadSessionsFromFile(file'), p))
            => Get(loadSessionsFromFile(file'), p) = Get(Registry, p)
C20_NoInPlaceMutation == [][RecordsKept]_vars

\* ------------------------------------------------- properties, third part
\* C21: the Error a failed start(p) throws, for an exhausted pool as for a
\* failed launch, names the provider p and gives the cause.
C21_StartErrorNamesProvider ==
    \A i \in Inv :
        (Returned(i, "start") /\ inv[i].err # "none")
            => /\ inv[i].msg.name = inv[i].name
               /\ inv[i].msg.cause # "none"

\* C22: a start or stop during which the write of the registry file
\* failed completes as it would have: start returns the address of the
\* worker it spawned, stop reports success, and no error reaches the
\* caller.  A start or stop that could not read the file goes on as with
\* an empty registry.
C22_PersistenceFailSoft ==
    \A i \in Inv :
        /\ (Returned(i, "start") /\ inv[i].logged > 0)
              => /\ inv[i].err = "none" /\ inv[i].spawn = "ok"
                 /\ inv[i].url = Url(inv[i].entry.port)
                 /\ procs[inv[i].entry.pid] = "live"
        /\ (Returned(i, "stop") /\ inv[i].logged > 0)
              => inv[i].err = "none" /\ inv[i].killed # {}
        /\ (Returned(i, "start") /\ ~inv[i].before.valid)
              => /\ inv[i].err \in {"none", "LaunchFailure"}
                 /\ inv[i].err = "none" => inv[i].entry.port = PORT_POOL[1]
        /\ (Returned(i, "stop") /\ ~inv[i].before.valid)
              => inv[i].err = MissingError

C22_Witness ==
    /\ Returned(1, "start") /\ inv[1].logged > 0
    /\ inv[1].url = Url(inv[1].entry.port)
    /\ procs[inv[1].entry.pid] = "live"
    /\ ~Has(Registry, inv[1].name) /\ Registry # <<>>

\* C23: a worker launched without a provider name, without a port or
\* with a port that is not a number, without a configuration or with one
\* that is not JSON, attempts no protocol connection and opens no HTTP
\* listener, and ends with a status that is not zero.
C23_WorkerInputValidation ==
    wk.args \notin {"none", "ok"}
        => /\ wk.conn = "none" /\ wk.listener = "none"
           /\ wk.pc \in {"main", "exited"}
           /\ wk.pc = "exited" => wk.how \in {"exit1", "signal"}

C25_ParamSources ==
    \A i \in Inv :
        (Returned(i, "call") /\ Has(Before(i), inv[i].name)
             /\ inv[i].cli.arg \in {"literal", "atFile", "dash"})
            => /\ inv[i].err # "ParamsNotJSON"
               /\ inv[i].cli.requests = 1

\* ------------------------------------- further properties of single functions
\* C26: allocatePort over a set of records returns the first port, in
\* the order 3978, 3979, 3980, 3981, 3982, that no record holds; it never
\* returns a port a record holds, and it throws only when all five are
\* held.
C26_FirstFreeAllocation ==
    (fn.f = "allocatePort" /\ fn.applied)
        => LET held == PortsOf(fn.in)
               order == <<3978, 3979, 3980, 3981, 3982>>
           IN  /\ fn.out = 0 <=> \A k \in 1..5 : order[k] \in held
               /\ fn.out # 0 =>
                     /\ fn.out \notin held
                     /\ \E k \in 1..5 : /\ order[k] = fn.out
                                        /\ \A j \in 1..(k - 1) : order[j] \in held

C26_Witness ==
    /\ fn.f = "allocatePort" /\ fn.applied
    /\ PortsOf(fn.in) = {3978, 3979, 3981} /\ Len(fn.in) = 4
    /\ fn.out = 3980

\* ------------------------------------ properties of consecutive calls
\* C27: the start that follows a successful stop(p) finds p's port free:
\* it is offered a port, and when the pool was full before the stop, the
\* port a new provider q is offered is the very port p held.  The start
\* that retries a start whose launch failed is offered the port the failed
\* one was offered.
C27_ImplicitRelease ==
    \A i \in Inv :
        /\ (Returned(i, "start") /\ last.stopped # 0 /\ ~Has(Before(i), inv[i].name))
              => /\ inv[i].err # "ResourceExhausted"
                 /\ inv[i].port # 0
                 /\ PortsOf(Before(i)) \cup {last.freed} = PoolPorts
                       => inv[i].port = last.freed
        /\ (Returned(i, "start") /\ last.failed # 0 /\ last.failed = inv[i].name)
              => inv[i].port = last.offered

\* C28: when start(p) has launched its worker and returned, the registry
\* holds a record for p with the port start allocated and the pid of the
\* process it launched, and the address returned is
\* http://localhost:{that port}.
C28_StartWritesRecord ==
    \A i \in Inv :
        (Returned(i, "start") /\ inv[i].spawn = "ok" /\ inv[i].err = "none")
            => /\ Has(Registry, inv[i].name)
               /\ Get(Registry, inv[i].name).port = inv[i].port
               /\ Get(Registry, inv[i].name).pid = inv[i].entry.pid
               /\ procs[inv[i].entry.pid] = "live"
               /\ mem # NoMem => inv[i].entry.pid = HostPid(i)
               /\ inv[i].port \in PoolPorts
               /\ inv[i].url = Url(inv[i].port)

C28_Witness ==
    /\ Returned(1, "start") /\ inv[1].spawn = "ok" /\ inv[1].err = "none"
    /\ mem = NoMem /\ Len(Registry) >= 3
    /\ Get(Registry, inv[1].name).pid = inv[1].entry.pid
    /\ inv[1].url = Url(Get(Registry, inv[1].name).port)

\* C29: with calls run one at a time, a start(p) or stop(p) that has
\* returned, with a result or with an error, has left the record of every
\* other provider q as it was: there with the same port, pid and
\* startedAt, or not there.
C29_SingleKeyFrame ==
    \A i \in Inv :
        (Returned(i, "start") \/ Returned(i, "stop"))
            => \A q \in Providers \ {inv[i].name} :
                  /\ Has(Registry, q) <=> Has(Before(i), q)
                  /\ Get(Registry, q) = Get(Before(i), q)

C29_Witness ==
    /\ Returned(1, "stop") /\ inv[1].err = "none"
    /\ Has(Before(1), inv[1].name) /\ ~Has(Registry, inv[1].name)
    /\ Len(Registry) >= 2
    /\ \A q \in Names(Registry) : Get(Registry, q) = Get(Before(1), q)

Count(seq, x) == Cardinality({k \in 1..Len(seq) : seq[k] = x})
RecordedPids(sessions) == {sessions[k].pid : k \in 1..Len(sessions)}

\* C31: when stopAll, run with no other invocation beside it, has returned
\* and every recorded process took the signal or was gone, the registry is
\* empty, no stop failed, and every recorded process was signalled exactly
\* once, the live ones now being told to terminate.
C31_StopAllEmptiesRegistry ==
    \A i \in Inv :
        (/\ Returned(i, "stopAll")
         /\ \A q \in RecordedPids(Before(i)) : procs[q] # "foreign")
            => /\ Registry = <<>>
               /\ inv[i].failed = {} /\ inv[i].reports = 0
               /\ Len(inv[i].sent) = Len(Before(i))
               /\ \A q \in RecordedPids(Before(i)) :
                     /\ Count(inv[i].sent, q) = 1
                     /\ procs[q] \in {"term", "crashed", "stray"}

\* C32: a session worker calls connect at most once in its life, a worker
\* that serves or has served has called it exactly once, and every tool
\* request it answered was forwarded over that first connection.
C32_OneConnectionPerWorker ==
    /\ wk.connects <= 1
    /\ wk.listener # "none" => wk.connects = 1
    /\ \A k \in 1..Len(wk.responses) : wk.responses[k].via = 1

C32_Witness ==
    /\ wk.pc = "exited" /\ wk.how = "exit0" /\ wk.connects = 1
    /\ Len(wk.responses) = MaxRequests
    /\ \A k \in 1..Len(wk.responses) : wk.responses[k].via = 1
    /\ \E k \in 1..Len(wk.responses) : wk.responses[k].success

\* C34: no SIGTERM that a stop sent was delivered to a process other than
\* the worker spawned for the record, also when that worker had died and
\* its pid had gone to another process.
C34_StopSignalsOnlyWorkers ==
    \A i \in Inv : \A q \in inv[i].killed : procs[q] # "stray"

\* The processes known to have been spawned as workers for provider p: the
\* one p's record names and those spawned by the start(p) calls under way
\* or just returned.
WorkersFor(p) ==
    {q \in Pids :
        \/ Has(Registry, p) /\ Get(Registry, p).pid = q
        \/ \E i \in Inv : /\ inv[i].op = "start" /\ inv[i].spawn = "ok"
                           /\ inv[i].name = p /\ inv[i].entry.pid = q}

\* C35: of the workers spawned for a provider p at most one is running
\* without having been sent SIGTERM, also while two start(p) calls of
\* separate CLI invocations overlap; and when a start(p) has returned, the
\* running worker it spawned is the one p's record names.
C35_OneLiveWorkerPerProvider ==
    /\ \A p \in Providers :
          Cardinality({q \in WorkersFor(p) : procs[q] = "live"}) <= 1
    /\ \A i \in Inv :
          (Returned(i, "start") /\ inv[i].spawn = "ok" /\ procs[inv[i].entry.pid] = "live")
              => Get(Registry, inv[i].name).pid = inv[i].entry.pid

\* C36: a worker whose handler has taken a termination signal exits in the
\* end, whether the close of the protocol connection succeeds or fails and
\* whatever further signals arrive, provided the event loop keeps running
\* the continuations that are ready.
C36_WorkerTerminates == wk.shuttingDown ~> (wk.pc = "exited")

C36_Witness ==
    /\ wk.pc = "exited" /\ wk.shuttingDown /\ wk.handlers
    /\ wk.how = "rejection" /\ wk.ignored >= 1 /\ wk.requests >= 1

\* C38: `call` prints the result and exits with status 0 only when it made
\* its request and the reply had a 2xx status and success = true; when the
\* connection failed (a stale record), the status was not 2xx or success
\* was false, it prints the error and exits with status 1; and whatever the
\* outcome, the registry file is what it was.
C38_CallOutcome ==
    \A i \in Inv :
        Returned(i, "call")
            => LET c == inv[i].cli
                   good == /\ c.requests = 1 /\ c.reply # [status |-> 0, success |-> FALSE]
                           /\ c.reply.status \in 200..299 /\ c.reply.success
               IN  /\ file = inv[i].before
                   /\ inv[i].killed = {} /\ inv[i].spawn = "none"
                   /\ (c.printed = "result" \/ c.exit = 0) => good
                   /\ good => c.printed = "result" /\ c.exit = 0 /\ inv[i].err = "none"
                   /\ (c.requests = 1 /\ ~good)
                         => c.exit = 1 /\ c.printed = "Failed to call tool"

C38_Witness ==
    /\ Returned(1, "call") /\ inv[1].cli.requests = 1
    /\ procs[Get(Before(1), inv[1].name).pid] # "live"
    /\ inv[1].cli.reply = [status |-> 200, success |-> FALSE]
    /\ inv[1].cli.exit = 1 /\ file = inv[1].before

\* C39: in the in-process manager, when a start or a stop has returned or
\* thrown, usedPorts of every process is the set of the ports of its
\* in-memory sessions; and a stop(p) that failed closing the HTTP server or
\* the client has left the session in memory, its port in usedPorts and
\* p's record in the registry, which is what it was.
C39_InProcessBookkeeping ==
    \A i \in Inv :
        (mem # NoMem /\ (Returned(i, "start") \/ Returned(i, "stop")))
            => /\ \A j \in Inv : mem[j].usedPorts = PortsOf(mem[j].sessions)
               /\ inv[i].err = "CloseFailure"
                     => /\ MemHas(mem[i], inv[i].name)
                        /\ MemGet(mem[i], inv[i].name).port \in mem[i].usedPorts
                        /\ Has(Registry, inv[i].name)
                        /\ file = inv[i].before

C39_Witness ==
    /\ mem # NoMem /\ Returned(1, "stop") /\ inv[1].err = "CloseFailure"
    /\ MemHas(mem[1], inv[1].name) /\ Has(Registry, inv[1].name)
    /\ Cardinality(mem[1].usedPorts) >= 2
    /\ calls = 2

\* ------------------------------------------ properties of the client cache
\* C40: initializeServer for a name that is in the Map returns the client
\* cached for it, opening no connection and leaving the Map as it is; a
\* connect that failed leaves the Map as it is; when closeAllServers has
\* completed without error the Map is empty; and callMCPTool and
\* listServerTools for a name that is not in the Map, so for any name after
\* that, throw the not-initialized error.
C40_ClientCache ==
    LET r == clients.res
    IN  /\ (r.op = "initializeServer" /\ r.step \in {"cached", "connecting"}
                /\ MapHas(r.before, r.name))
              => /\ r.step = "cached"
                 /\ r.out # 0 /\ r.out = MapGet(r.before, r.name)
                 /\ clients.opened = r.opened /\ clients.cache = r.before
        /\ (r.op = "initializeServer" /\ r.step = "failed")
              => /\ r.out = 0
                 /\ clients.opened = r.opened /\ clients.cache = r.before
        /\ (r.op = "closeAllServers" /\ r.step = "completed")
              => clients.cache = <<>> /\ clients.closing = NoEntry
        /\ (r.op \in {"callMCPTool", "listServerTools"} /\ ~MapHas(r.before, r.name))
              => r.err = "not initialized" /\ r.out = 0 /\ clients.cache = r.before

C40_Witness ==
    /\ clients.res.op = "callMCPTool" /\ clients.res.err = "not initialized"
    /\ clients.cache = <<>> /\ clients.opened >= 2
    /\ Cardinality(clients.closed) >= 2

\* ------------------------------------- properties of a session and its worker
\* C33: a start that is given a port for a new worker finds no earlier
\* worker listening on that port, and once stop has signalled a worker and
\* removed its record, that worker no longer listens.
C33_NoPortWhileBound ==
    /\ \A i \in Inv :
          (/\ inv[i].op = "start" /\ inv[i].spawn = "ok"
           /\ inv[i].entry.pid # wk.pid /\ inv[i].port = wk.port)
              => wk.listener # "open"
    /\ (wk.signals > 0 /\ wk.pid \notin RecordedPids(Registry))
          => wk.listener # "open"

\* The registry in file content f has a record naming the worker looked at.
WorkerRecorded(f) == wk.pid \in RecordedPids(loadSessionsFromFile(f))
RecordedAs(f, p) ==
    \E k \in 1..Len(loadSessionsFromFile(f)) :
        loadSessionsFromFile(f)[k].name = p /\ loadSessionsFromFile(f)[k].pid = wk.pid

\* C37: start returns the address with the record written whatever point
\* its worker has reached, ready or not; a worker that ends, the handshake
\* having failed, leaves the registry file as it is; the record of a worker
\* goes only in the save of a stop; and a start(p) that finds the record
\* of the worker, dead or alive, returns its address and spawns nothing.
StartIgnoresWorker ==
    \A i \in Inv :
        /\ (Returned(i, "start") /\ inv[i].spawn = "ok" /\ inv[i].entry.pid = wk.pid)
              => /\ inv[i].err = "none" /\ inv[i].url = Url(wk.port)
                 /\ RecordedAs(file, inv[i].name)
        /\ (Returned(i, "start") /\ RecordedAs(inv[i].before, inv[i].name))
              => /\ inv[i].err = "none" /\ inv[i].url = Url(wk.port)
                 /\ inv[i].spawn = "none" /\ file = inv[i].before
WorkerLeavesRegistry ==
    /\ (wk.pc # "exited" /\ wk'.pc = "exited") => file' = file
    /\ (WorkerRecorded(file) /\ ~WorkerRecorded(file'))
          => inv[1].pc = "rem_save" /\ inv[1].op \in {"stop", "stopAll"}
C37_StartDoesNotWait == []StartIgnoresWorker /\ [][WorkerLeavesRegistry]_vars

C37_Witness ==
    /\ Returned(1, "start") /\ inv[1].spawn = "none" /\ calls = 2
    /\ RecordedAs(file, inv[1].name)
    /\ wk.pc = "exited" /\ wk.how = "exit1" /\ wk.conn = "failed" /\ wk.signals = 0
    /\ inv[1].url = Url(wk.port)

C31_Witness ==
    /\ Returned(1, "stopAll") /\ Len(Before(1)) >= 3
    /\ Registry = <<>> /\ file # inv[1].before
    /\ \E q \in RecordedPids(Before(1)) : procs[q] = "crashed"
    /\ \E q \in RecordedPids(Before(1)) : procs[q] = "term"
    /\ \A q \in RecordedPids(Before(1)) : Count(inv[1].sent, q) = 1
====
